---- MODULE Spec2Model ----
\* The pipeline session of backend/app/main.py: one shared session_state record
\* and the HTTP handlers that read and write it.  A handler is one action; the
\* HTTP response it sends is kept in the variable response.
EXTENDS Integers, Sequences, FiniteSets, TLC

\* session_state and response as above; pc, locals and running are the
\* handlers in flight on the event loop: where each one stands, what it holds
\* in its local variables, and which one is executing between two awaits.
VARIABLES session_state, response, pc, locals, running

vars == <<session_state, response, pc, locals, running>>

loop == <<pc, locals, running>>

\* ---------------------------------------------------------------- bounds
\* Largest number of rows an uploaded table has.
MaxRows == 4
\* Cap on len(transformations_applied), so that preprocess cannot run for ever.
MaxTransforms == 2

\* ------------------------------------------------------- optional values
\* Python's None, and a value that is not None.
None == <<>>

Some(v) == <<v>>

Get(o) == o[1]

\* ------------------------------------------------------------ DataFrames
\* A DataFrame is [columns: sequence of names, nrows, data: name -> column];
\* a column is [dtype, raw: the parsed cells, applied: the scalers fitted and
\* applied to the cells, oldest first].  Two columns hold the same numbers
\* exactly when raw and applied agree.
Range(s) == {s[i] : i \in 1..Len(s)}

\* The cells of a parsed column: a running number, two alternating classes,
\* two alternating strings, or the same date in every row.
ColumnCells(kind, n) ==
    CASE kind = "int"   -> [i \in 1..n |-> i]
      [] kind = "label" -> [i \in 1..n |-> i % 2]
      [] kind = "text"  -> [i \in 1..n |-> i % 2]
      [] kind = "date"  -> [i \in 1..n |-> 1]

\* The column layouts of the files that are uploaded: name and kind of cell.
Layouts ==
    [plain  |-> << <<"f1", "int">>, <<"f2", "text">>, <<"label", "label">> >>,
     dated  |-> << <<"f1", "int">>, <<"when", "date">>, <<"label", "label">> >>,
     single |-> << <<"f1", "int">> >>]

\* An uploaded file: its extension, whether its bytes parse, and what they
\* hold.  The files tried: tables that load, with and without a date column,
\* from CSV and from Excel, and one file for each way an upload is refused.
File(ext, corrupt, layout, nrows) ==
    [ext |-> ext, corrupt |-> corrupt, layout |-> layout, nrows |-> nrows]

Files ==
    {File("csv", FALSE, "dated", 1),
     File("csv", FALSE, "plain", MaxRows),
     File("xlsx", FALSE, "plain", MaxRows),
     File("xlsx", FALSE, "dated", MaxRows),
     File("xls", FALSE, "dated", MaxRows),
     File("txt", FALSE, "plain", MaxRows),
     File("csv", TRUE, "plain", MaxRows),
     File("csv", FALSE, "plain", 0),
     File("xlsx", FALSE, "single", MaxRows)}

\* pd.read_csv leaves a date cell a string (dtype object); pd.read_excel makes
\* it a Timestamp (dtype datetime64[ns]).
ParsedDtype(ext, kind) ==
    CASE kind = "int"   -> "int64"
      [] kind = "label" -> "int64"
      [] kind = "text"  -> "object"
      [] kind = "date"  -> IF ext = "csv" THEN "object" ELSE "datetime64[ns]"

ReadTable(file) ==
    LET layout == Layouts[file.layout]
        names  == [i \in 1..Len(layout) |-> layout[i][1]]
        kindOf == [c \in Range(names) |->
                     (CHOOSE i \in 1..Len(layout) : layout[i][1] = c) ]
    IN  [columns |-> names,
         nrows   |-> file.nrows,
         data    |-> [c \in Range(names) |->
                        [dtype   |-> ParsedDtype(file.ext, layout[kindOf[c]][2]),
                         raw     |-> ColumnCells(layout[kindOf[c]][2], file.nrows),
                         applied |-> <<>>]]]

\* DataFrame.empty: an axis of length 0.
IsEmpty(df) == df.nrows = 0 \/ Len(df.columns) = 0

\* A test that lets string columns through.
IsNumericOrObject(dtype) == dtype \in {"int64", "float64", "object"}

\* np.issubdtype(dtype, np.number)
IsNumeric(dtype) == dtype \in {"int64", "float64"}

\* Whether json.dumps accepts the preview of df_to_json: a Timestamp cell of a
\* datetime64 column is not JSON serializable, and JSONResponse raises on it.
JsonSerializable(df) ==
    \A c \in Range(df.columns) : df.data[c].dtype # "datetime64[ns]"

\* --------------------------------------------------------- session state
\* The record the module creates when it is loaded.
InitialSession ==
    [original_df |-> None, processed_df |-> None,
     X_train |-> None, X_test |-> None, y_train |-> None, y_test |-> None,
     target_column |-> None, feature_columns |-> None,
     model |-> None, model_name |-> None,
     transformations_applied |-> <<>>]

\* The handlers' precondition tests.
\* A test of the wrong stage: the dataset counts as missing until it is split.
DatasetMissingOrUnsplit(s) == s.processed_df = None \/ s.X_train = None

DatasetMissing(s) == s.processed_df = None

OriginalMissing(s) == s.original_df = None

\* A test of a field that upload does not clear.
SplitMissingByTarget(s) == s.target_column = None

SplitMissing(s) == s.X_train = None

ModelMissing(s) == s.model = None

\* A response: the handler, the HTTP status, the detail of an HTTPException
\* (None on success) and the fields of the JSON body the properties read.
Reply(op, body) == [op |-> op, status |-> 200, detail |-> None, body |-> body]

Raise(op, status, detail) ==
    [op |-> op, status |-> status, detail |-> Some(detail), body |-> None]

NoDataset == "No dataset uploaded. Please upload a dataset first."

NoLocals ==
    [file |-> None, df |-> None, model_type |-> None,
     X_train |-> None, y_train |-> None]

Init ==
    /\ session_state = InitialSession
    /\ response = Reply("root", None)
    /\ pc = [upload |-> "idle", train |-> "idle"]
    /\ locals = NoLocals
    /\ running = "none"

\* ---------------------------------------------------------- POST /upload
\* The writes of a successful upload: both copies of the table, the empty
\* transformation log, and the reset of the downstream state.
StoreUpload(s, df) ==
    [s EXCEPT
       !.original_df = Some(df),
       !.processed_df = Some(df),
       !.transformations_applied = <<>>,
       !.X_train = None, !.X_test = None,
       !.y_train = None, !.y_test = None,
       !.model = None]

upload_dataset(file) ==
    IF file.ext \notin {"csv", "xlsx", "xls"}
    THEN /\ response' = Raise("upload", 400, "Invalid file type")
         /\ UNCHANGED session_state
    ELSE IF file.corrupt
    THEN /\ response' = Raise("upload", 400, "Error processing file")
         /\ UNCHANGED session_state
    ELSE LET df == ReadTable(file) IN
         IF IsEmpty(df)
         THEN /\ response' = Raise("upload", 400, "The uploaded file is empty")
              /\ UNCHANGED session_state
         ELSE IF Len(df.columns) < 2
         THEN /\ response' = Raise("upload", 400, "Dataset must have at least 2 columns")
              /\ UNCHANGED session_state
         ELSE /\ session_state' = StoreUpload(session_state, df)
              /\ response' =
                    IF JsonSerializable(df)
                    THEN Reply("upload", [rows |-> df.nrows, columns |-> Len(df.columns),
                                          column_names |-> df.columns])
                    ELSE Raise("upload", 400, "Error processing file")

\* ---------------------------------------------------------- GET /dataset
get_dataset ==
    /\ UNCHANGED session_state
    /\ response' =
          IF DatasetMissing(session_state)
          THEN Raise("dataset", 400, NoDataset)
          ELSE LET df == Get(session_state.processed_df) IN
               IF JsonSerializable(df)
               THEN Reply("dataset",
                          [rows |-> df.nrows, columns |-> Len(df.columns),
                           column_names |-> df.columns,
                           transformations_applied |->
                              session_state.transformations_applied])
               ELSE Raise("dataset", 500, "Internal Server Error")

\* ------------------------------------------------------ POST /preprocess
\* The request bodies tried: column lists and scaling methods.
PreprocessColumns ==
    {<<>>, <<"f1", "label">>, <<"f2">>, <<"zz", "f2">>}

Methods == {"standardize", "normalize", "robust"}

MethodName(method) ==
    IF method = "standardize" THEN "StandardScaler (z-score normalization)"
    ELSE "MinMaxScaler (0-1 normalization)"

\* df[columns] = scaler.fit_transform(df[columns]): every selected column
\* is rescaled and comes back as float64; rows and other columns are kept.
\* A rescaling that loses the last row.
FitTransformDropRow(df, columns, method) ==
    [df EXCEPT !.nrows = df.nrows - 1,
               !.data =
        [c \in DOMAIN df.data |->
            IF c \in Range(columns)
            THEN [dtype   |-> "float64",
                  raw     |-> df.data[c].raw,
                  applied |-> Append(df.data[c].applied, method)]
            ELSE df.data[c]]]

FitTransform(df, columns, method) ==
    [df EXCEPT !.data =
        [c \in DOMAIN df.data |->
            IF c \in Range(columns)
            THEN [dtype   |-> "float64",
                  raw     |-> df.data[c].raw,
                  applied |-> Append(df.data[c].applied, method)]
            ELSE df.data[c]]]

\* check_array refuses a selection of no columns (0 features).
ScalerRaises(df, columns) == Len(columns) = 0

preprocess_data(columns, method) ==
    /\ Len(session_state.transformations_applied) < MaxTransforms
    /\ IF DatasetMissing(session_state)
       THEN /\ response' = Raise("preprocess", 400, NoDataset)
            /\ UNCHANGED session_state
       ELSE LET df == Get(session_state.processed_df)
                invalid_cols == {c \in Range(columns) : c \notin Range(df.columns)}
                non_numeric == {c \in Range(columns) : ~IsNumeric(df.data[c].dtype)}
            IN  IF invalid_cols # {}
                THEN /\ response' = Raise("preprocess", 400, "Invalid columns")
                     /\ UNCHANGED session_state
                ELSE IF non_numeric # {}
                THEN /\ response' = Raise("preprocess", 400, "Columns must be numeric for transformation")
                     /\ UNCHANGED session_state
                ELSE IF method \notin {"standardize", "normalize"}
                THEN /\ response' = Raise("preprocess", 400, "Error during preprocessing: Invalid method")
                     /\ UNCHANGED session_state
                ELSE IF ScalerRaises(df, columns)
                THEN /\ response' = Raise("preprocess", 400, "Error during preprocessing")
                     /\ UNCHANGED session_state
                ELSE LET out == FitTransform(df, columns, method)
                         msg == [method_name |-> MethodName(method), columns |-> columns]
                         log == Append(session_state.transformations_applied, msg)
                     IN  /\ session_state' =
                               [session_state EXCEPT
                                  !.processed_df = Some(out),
                                  !.transformations_applied = log]
                         /\ response' =
                               IF JsonSerializable(out)
                               THEN Reply("preprocess",
                                          [message |-> msg, transformations_applied |-> log])
                               ELSE Raise("preprocess", 400, "Error during preprocessing")

\* ----------------------------------------------- POST /reset-preprocessing
\* A reset that empties the log and keeps the rescaled table.
RestoreLogOnly(s) == [s EXCEPT !.transformations_applied = <<>>]

\* A reset that also drops the split and the model, as an upload does.
RestoreAndClearSplit(s) ==
    [s EXCEPT !.processed_df = s.original_df,
              !.transformations_applied = <<>>,
              !.X_train = None, !.X_test = None,
              !.y_train = None, !.y_test = None,
              !.model = None]

RestoreOriginal(s) ==
    [s EXCEPT !.processed_df = s.original_df,
              !.transformations_applied = <<>>]

reset_preprocessing ==
    IF OriginalMissing(session_state)
    THEN /\ response' = Raise("reset-preprocessing", 400, "No dataset uploaded.")
         /\ UNCHANGED session_state
    ELSE /\ session_state' = RestoreOriginal(session_state)
         /\ response' =
               IF JsonSerializable(Get(session_state.original_df))
               THEN Reply("reset-preprocessing", None)
               ELSE Raise("reset-preprocessing", 500, "Internal Server Error")

\* ----------------------------------------------------------- POST /split
\* The request bodies tried.  test_size is held in hundredths: 10 is 0.1.
Targets == {"label", "when"}

TestSizes == {5, 10, 50, 60}

Seeds == {42, 43}

\* pd.factorize(cells)[0]: the code of a value is the number of distinct
\* values seen before its first occurrence.
Factorize(cells) ==
    [i \in 1..Len(cells) |->
        LET first == CHOOSE j \in 1..i :
                        /\ cells[j] = cells[i]
                        /\ \A k \in 1..(j - 1) : cells[k] # cells[i]
        IN  Cardinality({cells[k] : k \in 1..(first - 1)})]

\* X = df.drop(columns=[target]); every object column of the copy is
\* replaced by its integer codes.
Encode(df, target) ==
    LET keep == SelectSeq(df.columns, LAMBDA c : c # target)
    IN  [columns |-> keep,
         nrows   |-> df.nrows,
         data    |-> [c \in Range(keep) |->
                        IF df.data[c].dtype = "object"
                        THEN [dtype   |-> "int64",
                              raw     |-> Factorize(df.data[c].raw),
                              applied |-> df.data[c].applied]
                        ELSE df.data[c]]]

\* The distinct values of a column and how often each occurs.
Unique(col) == Range(col.raw)

ClassCount(col, v) == Cardinality({i \in 1..Len(col.raw) : col.raw[i] = v})

\* The sizes train_test_split gives the two parts: ceil(test_size * n) rows
\* for testing, the rest for training.
NTest(n, test_size) == (test_size * n + 99) \div 100

NTrain(n, test_size) == n - NTest(n, test_size)

\* train_test_split raises when the training part would be empty and, when
\* stratified, when a class has a single member or a part has fewer rows
\* than there are classes.
SplitterRaises(n, y, test_size) ==
    \/ NTrain(n, test_size) = 0
    \/ /\ Cardinality(Unique(y)) > 1
       /\ \/ \E v \in Unique(y) : ClassCount(y, v) < 2
          \/ NTrain(n, test_size) < Cardinality(Unique(y))
          \/ NTest(n, test_size) < Cardinality(Unique(y))

\* The shuffled order of the rows under a seed: the first NTest rows of it
\* are the test part, the others the training part.
Permutation(seed, n) == [i \in 1..n |-> ((i - 1 + seed) % n) + 1]

TestIndex(seed, n, test_size) ==
    SubSeq(Permutation(seed, n), 1, NTest(n, test_size))

\* A training part that takes every row, the test rows included.
TrainIndexWhole(seed, n, test_size) == Permutation(seed, n)

TrainIndex(seed, n, test_size) ==
    SubSeq(Permutation(seed, n), NTest(n, test_size) + 1, n)

\* A range test that leaves the two bounds out.
TestSizeValidStrict(test_size) == 10 < test_size /\ test_size < 50

\* not 0.1 <= test_size <= 0.5
TestSizeValid(test_size) == 10 <= test_size /\ test_size <= 50

\* A split that leaves the model of the previous split in place.
StoreSplitKeepModel(s, X_train, X_test, y_train, y_test, target_column, feature_columns) ==
    [s EXCEPT
       !.X_train = Some(X_train),
       !.X_test = Some(X_test),
       !.y_train = Some(y_train),
       !.y_test = Some(y_test),
       !.target_column = Some(target_column),
       !.feature_columns = Some(feature_columns)]

\* A split that keeps the test part of an earlier split when there is one.
StoreSplitKeepTest(s, X_train, X_test, y_train, y_test, target_column, feature_columns) ==
    [s EXCEPT
       !.X_train = Some(X_train),
       !.X_test = IF s.X_test = None THEN Some(X_test) ELSE s.X_test,
       !.y_train = Some(y_train),
       !.y_test = IF s.y_test = None THEN Some(y_test) ELSE s.y_test,
       !.target_column = Some(target_column),
       !.feature_columns = Some(feature_columns),
       !.model = None,
       !.model_name = None]

\* What building the response of a split can do.  target_classes is
\* y.unique().tolist(): for a datetime64 target that is a list of integers
\* when unique() gives an ndarray and a list of Timestamps, on which
\* JSONResponse raises, when it gives a DatetimeArray.
SplitResponseOutcomes(y) ==
    IF y.dtype = "datetime64[ns]" THEN {"sent", "raises"} ELSE {"sent"}

\* The writes of a successful split: the four parts, the column names, and
\* the reset of the model.
StoreSplit(s, X_train, X_test, y_train, y_test, target_column, feature_columns) ==
    [s EXCEPT
       !.X_train = Some(X_train),
       !.X_test = Some(X_test),
       !.y_train = Some(y_train),
       !.y_test = Some(y_test),
       !.target_column = Some(target_column),
       !.feature_columns = Some(feature_columns),
       !.model = None,
       !.model_name = None]

split_data(target_column, test_size, random_state) ==
    IF DatasetMissing(session_state)
    THEN /\ response' = Raise("split", 400, NoDataset)
         /\ UNCHANGED session_state
    ELSE LET df == Get(session_state.processed_df) IN
         IF target_column \notin Range(df.columns)
         THEN /\ response' = Raise("split", 400, "Target column not found")
              /\ UNCHANGED session_state
         ELSE IF ~TestSizeValid(test_size)
         THEN /\ response' = Raise("split", 400, "Test size must be between 0.1 (10%) and 0.5 (50%)")
              /\ UNCHANGED session_state
         ELSE LET X_encoded == Encode(df, target_column)
                  y == df.data[target_column]
                  train == TrainIndex(random_state, df.nrows, test_size)
                  test == TestIndex(random_state, df.nrows, test_size)
              IN  IF SplitterRaises(df.nrows, y, test_size)
                  THEN /\ response' = Raise("split", 400, "Error during split")
                       /\ UNCHANGED session_state
                  ELSE /\ \E outcome \in SplitResponseOutcomes(y) :
                            response' =
                               IF outcome = "sent"
                               THEN Reply("split",
                                          [train_samples |-> Len(train),
                                           test_samples |-> Len(test),
                                           target_column |-> target_column,
                                           feature_columns |-> X_encoded.columns])
                               ELSE Raise("split", 400, "Error during split")
                       /\ session_state' =
                             StoreSplit(session_state,
                                        [index |-> train, frame |-> X_encoded],
                                        [index |-> test, frame |-> X_encoded],
                                        [index |-> train, column |-> y],
                                        [index |-> test, column |-> y],
                                        target_column, X_encoded.columns)

\* ----------------------------------------------------------- POST /train
ModelTypes == {"logistic_regression", "decision_tree", "svm"}

ModelName(model_type) ==
    IF model_type = "logistic_regression" THEN "Logistic Regression"
    ELSE "Decision Tree Classifier"

\* What model.fit(X_train, y_train) can do; the arguments are the session's
\* fields, None included.  fit(None, None) raises; a Timestamp feature
\* cannot be cast to a number; logistic regression needs two classes among
\* the training labels; rescaled labels are floats, which the classifiers
\* take as classes only if every one of them is a whole number.
FitOutcomes(model_type, X_train, y_train) ==
    IF X_train = None \/ y_train = None
    THEN {"raises"}
    ELSE LET X == Get(X_train)
             y == Get(y_train)
             labels == {y.column.raw[y.index[i]] : i \in 1..Len(y.index)}
         IN  IF \E c \in Range(X.frame.columns) :
                    X.frame.data[c].dtype = "datetime64[ns]"
             THEN {"raises"}
             ELSE IF y.column.dtype = "datetime64[ns]"
             THEN {"raises"}
             ELSE IF model_type = "logistic_regression" /\ Cardinality(labels) < 2
             THEN {"raises"}
             ELSE IF y.column.applied # <<>>
             THEN {"fitted", "raises"}
             ELSE {"fitted"}

\* The writes of a successful train: the estimator, which holds what it was
\* fitted on, and its display name.
StoreModel(s, model_type, X_train, y_train) ==
    [s EXCEPT
       !.model = Some([type |-> model_type, X |-> X_train, y |-> y_train]),
       !.model_name = Some(ModelName(model_type))]

train_model(model_type) ==
    IF SplitMissing(session_state)
    THEN /\ response' = Raise("train", 400, "Data not split. Please perform train-test split first.")
         /\ UNCHANGED session_state
    ELSE LET X_train == session_state.X_train
             y_train == session_state.y_train
         IN  IF model_type \notin {"logistic_regression", "decision_tree"}
             THEN /\ response' = Raise("train", 400, "Error during training: Invalid model type")
                  /\ UNCHANGED session_state
             ELSE \E outcome \in FitOutcomes(model_type, X_train, y_train) :
                    IF outcome = "raises"
                    THEN /\ response' = Raise("train", 400, "Error during training")
                         /\ UNCHANGED session_state
                    ELSE /\ session_state' =
                               StoreModel(session_state, model_type, X_train, y_train)
                         /\ response' =
                               Reply("train",
                                     [model_type |-> model_type,
                                      model_name |-> ModelName(model_type),
                                      training_samples |-> Len(Get(X_train).index),
                                      features_used |-> session_state.feature_columns])

\* ---------------------------------------------------------- GET /results
\* An evaluate that uses the model up: it answers and drops the model.
get_results_once ==
    /\ session_state' = [session_state EXCEPT !.model = None]
    /\ response' =
          IF ModelMissing(session_state)
          THEN Raise("results", 400, "No model trained. Please train a model first.")
          ELSE Reply("results",
                     [model_name |-> session_state.model_name,
                      test_samples |-> Len(Get(session_state.y_test).index),
                      predicted_with |-> Get(session_state.model),
                      predicted_on |-> Get(session_state.X_test)])

get_results ==
    /\ UNCHANGED session_state
    /\ response' =
          IF ModelMissing(session_state)
          THEN Raise("results", 400, "No model trained. Please train a model first.")
          ELSE Reply("results",
                     [model_name |-> session_state.model_name,
                      test_samples |-> Len(Get(session_state.y_test).index),
                      predicted_with |-> Get(session_state.model),
                      predicted_on |-> Get(session_state.X_test)])

\* --------------------------------------------------- GET /pipeline-status
\* A status whose last flag waits for an evaluate, which nothing records.
StatusResultsNever(s) ==
    [upload     |-> s.original_df # None,
     preprocess |-> Len(s.transformations_applied) > 0,
     split      |-> s.X_train # None,
     train      |-> s.model # None,
     results    |-> FALSE,
     details    |->
        [dataset_rows    |-> IF s.original_df # None
                             THEN Get(s.original_df).nrows ELSE 0,
         transformations |-> s.transformations_applied,
         model_name      |-> s.model_name,
         target_column   |-> s.target_column]]

Status(s) ==
    [upload     |-> s.original_df # None,
     preprocess |-> Len(s.transformations_applied) > 0,
     split      |-> s.X_train # None,
     train      |-> s.model # None,
     results    |-> s.model # None,
     details    |->
        [dataset_rows    |-> IF s.original_df # None
                             THEN Get(s.original_df).nrows ELSE 0,
         transformations |-> s.transformations_applied,
         model_name      |-> s.model_name,
         target_column   |-> s.target_column]]

get_pipeline_status ==
    /\ UNCHANGED session_state
    /\ response' = Reply("pipeline-status", Status(session_state))

\* ----------------------------------------------------------- POST /reset
\* A reset record whose feature list is empty rather than None.
EmptySessionEmptyFeatures ==
    [original_df |-> None, processed_df |-> None,
     X_train |-> None, X_test |-> None, y_train |-> None, y_test |-> None,
     target_column |-> None, feature_columns |-> Some(<<>>),
     model |-> None, model_name |-> None,
     transformations_applied |-> <<>>]

\* The record reset_pipeline rebinds session_state to.
EmptySession ==
    [original_df |-> None, processed_df |-> None,
     X_train |-> None, X_test |-> None, y_train |-> None, y_test |-> None,
     target_column |-> None, feature_columns |-> None,
     model |-> None, model_name |-> None,
     transformations_applied |-> <<>>]

reset_pipeline ==
    /\ session_state' = EmptySession
    /\ response' = Reply("reset", None)

\* ------------------------------------------------- serialized requests
\* Every request runs to its response before the next one starts.
Next ==
    \/ (\E file \in Files : upload_dataset(file)) /\ UNCHANGED loop
    \/ get_dataset /\ UNCHANGED loop
    \/ (\E columns \in PreprocessColumns, method \in Methods :
          preprocess_data(columns, method)) /\ UNCHANGED loop
    \/ reset_preprocessing /\ UNCHANGED loop
    \/ (\E target_column \in Targets, test_size \in TestSizes, random_state \in Seeds :
          split_data(target_column, test_size, random_state)) /\ UNCHANGED loop
    \/ (\E model_type \in ModelTypes : train_model(model_type)) /\ UNCHANGED loop
    \/ get_results /\ UNCHANGED loop
    \/ get_pipeline_status /\ UNCHANGED loop
    \/ reset_pipeline /\ UNCHANGED loop

Spec == Init /\ [][Next]_vars

\* --------------------------------------------- an upload racing a train
\* The handlers are coroutines of one event loop: a handler that has started
\* runs until it awaits or returns, and only then can another one run.  The
\* only await of a handler is upload's "content = await file.read()".
\* Handlers run by threads instead: every statement boundary is a switch.
AwaitsEverywhere(handler, label) == TRUE

Awaits(handler, label) ==
    \/ label = "idle"
    \/ handler = "upload" /\ label = "await_read"

Runnable(handler) == running \in {"none", handler}

\* The handler moves to label; it keeps the loop unless it awaits there.
Goto(handler, label) ==
    /\ pc' = [pc EXCEPT ![handler] = label]
    /\ running' = IF Awaits(handler, label) THEN "none" ELSE handler

\* upload_dataset, statement by statement.
upload_begin(file) ==
    /\ pc.upload = "idle"
    /\ Runnable("upload")
    /\ UNCHANGED session_state
    /\ IF file.ext \notin {"csv", "xlsx", "xls"}
       THEN /\ response' = Raise("upload", 400, "Invalid file type")
            /\ Goto("upload", "idle")
            /\ UNCHANGED locals
       ELSE /\ Goto("upload", "await_read")
            /\ locals' = [locals EXCEPT !.file = Some(file)]
            /\ UNCHANGED response

upload_parse ==
    /\ pc.upload = "await_read"
    /\ Runnable("upload")
    /\ UNCHANGED session_state
    /\ LET file == Get(locals.file)
           df == ReadTable(file)
           refusal == IF file.corrupt THEN Some("Error processing file")
                      ELSE IF IsEmpty(df) THEN Some("The uploaded file is empty")
                      ELSE IF Len(df.columns) < 2
                      THEN Some("Dataset must have at least 2 columns")
                      ELSE None
       IN  IF refusal # None
           THEN /\ response' = Raise("upload", 400, Get(refusal))
                /\ Goto("upload", "idle")
                /\ locals' = [locals EXCEPT !.file = None]
           ELSE /\ Goto("upload", "store_df")
                /\ locals' = [locals EXCEPT !.df = Some(df)]
                /\ UNCHANGED response

upload_store_df ==
    /\ pc.upload = "store_df"
    /\ Runnable("upload")
    /\ session_state' =
          [session_state EXCEPT
             !.original_df = locals.df,
             !.processed_df = locals.df,
             !.transformations_applied = <<>>]
    /\ Goto("upload", "clear_split")
    /\ UNCHANGED <<response, locals>>

upload_clear_split ==
    /\ pc.upload = "clear_split"
    /\ Runnable("upload")
    /\ session_state' =
          [session_state EXCEPT
             !.X_train = None, !.X_test = None,
             !.y_train = None, !.y_test = None]
    /\ Goto("upload", "clear_model")
    /\ UNCHANGED <<response, locals>>

upload_clear_model ==
    /\ pc.upload = "clear_model"
    /\ Runnable("upload")
    /\ session_state' = [session_state EXCEPT !.model = None]
    /\ Goto("upload", "respond")
    /\ UNCHANGED <<response, locals>>

upload_respond ==
    /\ pc.upload = "respond"
    /\ Runnable("upload")
    /\ LET df == Get(locals.df)
       IN  response' =
              IF JsonSerializable(df)
              THEN Reply("upload", [rows |-> df.nrows, columns |-> Len(df.columns),
                                    column_names |-> df.columns])
              ELSE Raise("upload", 400, "Error processing file")
    /\ Goto("upload", "idle")
    /\ locals' = [locals EXCEPT !.file = None, !.df = None]
    /\ UNCHANGED session_state

\* train_model, statement by statement.
train_begin(model_type) ==
    /\ pc.train = "idle"
    /\ Runnable("train")
    /\ UNCHANGED session_state
    /\ IF SplitMissing(session_state)
       THEN /\ response' = Raise("train", 400, "Data not split. Please perform train-test split first.")
            /\ Goto("train", "idle")
            /\ UNCHANGED locals
       ELSE /\ Goto("train", "fit")
            /\ locals' = [locals EXCEPT !.model_type = Some(model_type),
                                        !.X_train = session_state.X_train,
                                        !.y_train = session_state.y_train]
            /\ UNCHANGED response

train_fit ==
    /\ pc.train = "fit"
    /\ Runnable("train")
    /\ UNCHANGED session_state
    /\ LET model_type == Get(locals.model_type)
       IN  IF model_type \notin {"logistic_regression", "decision_tree"}
           THEN /\ response' = Raise("train", 400, "Error during training: Invalid model type")
                /\ Goto("train", "idle")
                /\ locals' = [locals EXCEPT !.model_type = None,
                                            !.X_train = None, !.y_train = None]
           ELSE \E outcome \in FitOutcomes(model_type, locals.X_train, locals.y_train) :
                  IF outcome = "raises"
                  THEN /\ response' = Raise("train", 400, "Error during training")
                       /\ Goto("train", "idle")
                       /\ locals' = [locals EXCEPT !.model_type = None,
                                                   !.X_train = None, !.y_train = None]
                  ELSE /\ Goto("train", "store")
                       /\ UNCHANGED <<response, locals>>

train_store ==
    /\ pc.train = "store"
    /\ Runnable("train")
    /\ LET model_type == Get(locals.model_type)
       IN  /\ session_state' =
                 StoreModel(session_state, model_type, locals.X_train, locals.y_train)
           /\ response' =
                 Reply("train",
                       [model_type |-> model_type,
                        model_name |-> ModelName(model_type),
                        training_samples |-> Len(Get(locals.X_train).index),
                        features_used |-> session_state.feature_columns])
    /\ Goto("train", "idle")
    /\ locals' = [locals EXCEPT !.model_type = None,
                                !.X_train = None, !.y_train = None]

\* A split request, served whenever the loop is free.
split_between ==
    /\ running = "none"
    /\ \E target_column \in Targets, test_size \in TestSizes, random_state \in Seeds :
          split_data(target_column, test_size, random_state)
    /\ UNCHANGED loop

RaceNext ==
    \/ \E file \in Files : upload_begin(file)
    \/ upload_parse
    \/ upload_store_df
    \/ upload_clear_split
    \/ upload_clear_model
    \/ upload_respond
    \/ \E model_type \in ModelTypes : train_begin(model_type)
    \/ train_fit
    \/ train_store
    \/ split_between

\* The loop runs every handler that is ready, and requests keep arriving.
RaceSpec == Init /\ [][RaceNext]_vars /\ WF_vars(RaceNext)

\* ============================================================ properties
NotSplit == "Data not split. Please perform train-test split first."

NotTrained == "No model trained. Please train a model first."

\* C1: train answers 200 only from a state that holds a split and is refused
\* with the "Data not split" error from every state that holds none, and
\* evaluate answers 200 only from a state that holds a model and is refused
\* with the "No model trained" error from every state that holds none.
TrainEvaluatePreconditions ==
    [][/\ response'.op = "train" =>
            /\ response'.status = 200 => session_state.X_train # None
            /\ session_state.X_train = None => response' = Raise("train", 400, NotSplit)
       /\ response'.op = "results" =>
            /\ response'.status = 200 => session_state.model # None
            /\ session_state.model = None => response' = Raise("results", 400, NotTrained)
      ]_vars

\* train is refused for want of a split although a split was made earlier
\* (its target column is still recorded) and a dataset is held.
TrainRefusedAfterLaterUpload ==
    /\ response = Raise("train", 400, NotSplit)
    /\ session_state.target_column # None
    /\ session_state.original_df # None

\* C2: after an upload that answered 200 the transformation log is empty, no
\* field of the split record is set, neither the model nor its name is set,
\* and status() reports split=false, train=false and null names.
UploadClearsDownstream ==
    (response.op = "upload" /\ response.status = 200) =>
        /\ session_state.transformations_applied = <<>>
        /\ session_state.X_train = None
        /\ session_state.X_test = None
        /\ session_state.y_train = None
        /\ session_state.y_test = None
        /\ session_state.target_column = None
        /\ session_state.feature_columns = None
        /\ session_state.model = None
        /\ session_state.model_name = None
        /\ Status(session_state).split = FALSE
        /\ Status(session_state).train = FALSE
        /\ Status(session_state).details.target_column = None
        /\ Status(session_state).details.model_name = None

\* C3: a stored model implies a stored split, and the data the model was
\* fitted on is the training part of the split now stored.
ModelFittedOnCurrentSplit ==
    session_state.model # None =>
        /\ session_state.X_train # None
        /\ session_state.y_train # None
        /\ Get(session_state.model).X = session_state.X_train
        /\ Get(session_state.model).y = session_state.y_train

\* A model is stored, fitted on a split of a preprocessed table, and the
\* working dataset has been reset since.
ModelKeptAcrossReset ==
    /\ session_state.model # None
    /\ response.op = "reset-preprocessing"
    /\ \E c \in Range(Get(session_state.X_train).frame.columns) :
          Get(session_state.X_train).frame.data[c].applied # <<>>

\* C4: once resetPreprocessing has passed its precondition the working
\* dataset equals the original one, the transformation log is empty, and
\* the original is a table exactly as an upload parsed it.
ResetPreprocessingRestoresUpload ==
    /\ (response.op = "reset-preprocessing" /\ response.status # 400) =>
          /\ session_state.processed_df = session_state.original_df
          /\ session_state.transformations_applied = <<>>
    /\ session_state.original_df # None =>
          \E file \in Files : session_state.original_df = Some(ReadTable(file))

\* resetPreprocessing answered 200 and preprocess had run before it: the
\* split stored was taken from rescaled columns.
ResetAfterPreprocess ==
    /\ response.op = "reset-preprocessing"
    /\ response.status = 200
    /\ session_state.X_train # None
    /\ \E c \in Range(Get(session_state.X_train).frame.columns) :
          Get(session_state.X_train).frame.data[c].applied # <<>>

AllStagesFalse ==
    [upload |-> FALSE, preprocess |-> FALSE, split |-> FALSE, train |-> FALSE,
     results |-> FALSE,
     details |-> [dataset_rows |-> 0, transformations |-> <<>>,
                  model_name |-> None, target_column |-> None]]

\* C5: resetAll answers 200 from every state and leaves the session equal
\* to the initial record, and a status() right after it reports the five
\* flags false, 0 rows, no transformation and null names.
ResetAllRestoresInitial ==
    [][/\ response'.op = "reset" =>
            /\ response'.status = 200
            /\ session_state' = InitialSession
       /\ (response.op = "reset" /\ response'.op = "pipeline-status") =>
            response'.body = AllStagesFalse
      ]_vars

\* resetAll has answered and the session is the initial record.
ResetAllAnswered ==
    /\ response = Reply("reset", None)
    /\ session_state = InitialSession

\* C6: a call that does not answer 200 leaves every field of the session as
\* it was before the call.
FailedOperationLeavesSession ==
    [][response'.status # 200 => session_state' = session_state]_vars

TargetNotFound == "Target column not found"

TestSizeRange == "Test size must be between 0.1 (10%) and 0.5 (50%)"

\* C7: with a dataset held, split is refused with the target error when the
\* target is no column of the working dataset, with the test-size error when
\* the target is a column and test_size is below 0.1 or above 0.5, and with
\* neither when the target is a column and 0.1 <= test_size <= 0.5.
SplitValidation ==
    [][(response'.op = "split" /\ session_state.processed_df # None) =>
          LET cols == Range(Get(session_state.processed_df).columns)
          IN  \A t \in Targets, ts \in TestSizes :
                 (\E seed \in Seeds : split_data(t, ts, seed)) =>
                    /\ t \notin cols => response' = Raise("split", 400, TargetNotFound)
                    /\ (t \in cols /\ (ts < 10 \/ ts > 50)) =>
                          response' = Raise("split", 400, TestSizeRange)
                    /\ (t \in cols /\ ts >= 10 /\ ts <= 50) =>
                          response'.detail \notin {Some(TargetNotFound), Some(TestSizeRange)}
      ]_vars

\* split was refused for its test fraction while a model trained on an
\* earlier split is held.
SplitRefusedForTestSize ==
    /\ response = Raise("split", 400, TestSizeRange)
    /\ session_state.model # None

NoDatasetDetails == {Some(NoDataset), Some("No dataset uploaded.")}

\* C8: describe, preprocess, resetPreprocessing and split are refused with a
\* "No dataset uploaded" error exactly when no dataset is held; a dataset is
\* held after every upload that answered 200, and once held it stays held
\* until resetAll.
DatasetPrecondition ==
    [][/\ response'.op \in {"dataset", "preprocess", "reset-preprocessing", "split"} =>
            /\ session_state.processed_df = None =>
                  (response'.status = 400 /\ response'.detail \in NoDatasetDetails)
            /\ response'.detail \in NoDatasetDetails =>
                  session_state.processed_df = None
       /\ (response'.op = "upload" /\ response'.status = 200) =>
            session_state'.processed_df # None
       /\ (session_state.processed_df # None /\ response'.op # "reset") =>
            session_state'.processed_df # None
       /\ (session_state'.processed_df = None) <=> (session_state'.original_df = None)
      ]_vars

\* split is refused for want of a dataset.
SplitRefusedWithoutDataset ==
    /\ response = Raise("split", 400, NoDataset)
    /\ session_state = InitialSession

\* What an upload racing a train could break: a model stored while the split
\* is absent, a split stored in part, or a train holding a split that is no
\* longer the stored one.
Inconsistent ==
    \/ session_state.model # None /\ session_state.X_train = None
    \/ /\ session_state.model # None
       /\ \/ Get(session_state.model).X # session_state.X_train
          \/ Get(session_state.model).y # session_state.y_train
    \/ (session_state.X_train = None) # (session_state.y_train = None)
    \/ /\ pc.train # "idle"
       /\ \/ locals.X_train # session_state.X_train
          \/ locals.y_train # session_state.y_train

\* C9 as amended: with uploads racing trains on the event loop, no state in
\* which another request can run is inconsistent, and a train never holds a
\* split other than the stored one: the interleavings are serial orders.
RaceIsSerial ==
    /\ running = "none" => ~Inconsistent
    /\ pc.train # "idle" =>
          /\ locals.X_train = session_state.X_train
          /\ session_state.X_train # None

\* A train ran to its response while an upload was waiting for its file.
TrainDuringUploadAwait ==
    /\ pc.upload = "await_read"
    /\ response.op = "train"
    /\ response.status = 200
    /\ session_state.model # None

\* C9 as stated: once a train has run while an upload was in flight, a state
\* open to other requests is reached that is inconsistent.
RaceReachesInconsistentState ==
    [](TrainDuringUploadAwait => <>(running = "none" /\ Inconsistent))

\* C10: an upload that answers 200 stores the parsed table and reports its
\* row and column counts; describe reports the row and column counts of the
\* original table whenever it answers 200; and the original table changes
\* only in an upload or a resetAll.
DescribeReportsUploadedShape ==
    [][/\ \A file \in Files :
            (/\ response'.op = "upload"
             /\ response'.status = 200
             /\ upload_dataset(file)) =>
               /\ session_state'.original_df = Some(ReadTable(file))
               /\ response'.body.rows = file.nrows
               /\ response'.body.columns = Len(Layouts[file.layout])
       /\ (response'.op = "dataset" /\ response'.status = 200) =>
            /\ response'.body.rows = Get(session_state'.original_df).nrows
            /\ response'.body.columns = Len(Get(session_state'.original_df).columns)
            /\ response'.body.column_names = Get(session_state'.original_df).columns
       /\ response'.op \notin {"upload", "reset"} =>
            session_state'.original_df = session_state.original_df
      ]_vars

\* describe answers after two transformations of the one-row table.
DescribeAfterPreprocess ==
    /\ response.op = "dataset"
    /\ response.status = 200
    /\ Len(session_state.transformations_applied) = 2
    /\ response.body.rows = 1
    /\ response.body.columns = 3

\* The fields a split writes.
SplitRecord(s) ==
    <<s.X_train, s.X_test, s.y_train, s.y_test, s.target_column, s.feature_columns>>

\* C11: a split that answers 200 stores the four parts and clears the model
\* and its name; a split that does not answer 200 leaves the split fields,
\* the model and its name as they were; a train that answers 200 stores a
\* model and its name and leaves every split field as it was.
SplitAndTrainWrites ==
    [][/\ (response'.op = "split" /\ response'.status = 200) =>
            /\ session_state'.X_train # None
            /\ session_state'.X_test # None
            /\ session_state'.y_train # None
            /\ session_state'.y_test # None
            /\ session_state'.model = None
            /\ session_state'.model_name = None
       /\ (response'.op = "split" /\ response'.status # 200) =>
            /\ SplitRecord(session_state') = SplitRecord(session_state)
            /\ session_state'.model = session_state.model
            /\ session_state'.model_name = session_state.model_name
       /\ (response'.op = "train" /\ response'.status = 200) =>
            /\ session_state'.model # None
            /\ session_state'.model_name # None
            /\ SplitRecord(session_state') = SplitRecord(session_state)
      ]_vars

\* C12: preprocess and resetPreprocessing, whatever they answer, leave the
\* split fields, the model and its name as they were, and an evaluate that
\* follows one of them predicts on the test part stored before it.
PreprocessKeepsSplitAndModel ==
    [][/\ response'.op \in {"preprocess", "reset-preprocessing"} =>
            /\ SplitRecord(session_state') = SplitRecord(session_state)
            /\ session_state'.model = session_state.model
            /\ session_state'.model_name = session_state.model_name
       /\ (/\ response.op \in {"preprocess", "reset-preprocessing"}
           /\ response'.op = "results"
           /\ response'.status = 200) =>
            /\ response'.body.predicted_on = Get(session_state.X_test)
            /\ response'.body.predicted_with = Get(session_state.model)
      ]_vars

\* preprocess answered 200 while a model is held, and the test part stored
\* no longer matches the working dataset, whose f1 column has been rescaled
\* since the split.
PreprocessAfterTrain ==
    /\ response.op = "preprocess"
    /\ response.status = 200
    /\ session_state.model # None
    /\ session_state.X_test # None
    /\ Get(session_state.X_test).frame.data["f1"] #
          Get(session_state.processed_df).data["f1"]

\* C13: a preprocess that answers 200 appends exactly one entry to the
\* transformation log and keeps the earlier entries in order; the log gets
\* shorter only in an upload, a resetPreprocessing or a resetAll; and it
\* gets longer only in a preprocess that answers 200, so that a non-empty
\* log tells of a preprocess that succeeded since the log was last emptied.
TransformationLogAppendOnly ==
    [][LET before == session_state.transformations_applied
           after  == session_state'.transformations_applied
       IN  /\ (response'.op = "preprocess" /\ response'.status = 200) =>
                /\ Len(after) = Len(before) + 1
                /\ SubSeq(after, 1, Len(before)) = before
           /\ Len(after) < Len(before) =>
                response'.op \in {"upload", "reset-preprocessing", "reset"}
           /\ Len(after) > Len(before) =>
                (response'.op = "preprocess" /\ response'.status = 200)
      ]_vars

\* C14: the original dataset changes only in an upload that answers 200,
\* which replaces it by the parsed table, or in a resetAll, which clears it;
\* no other call changes it; and the working dataset is held exactly when
\* the original one is.
OriginalIsSnapshot ==
    [][/\ session_state'.original_df # session_state.original_df =>
            \/ response'.op = "upload" /\ response'.status = 200
            \/ response'.op = "reset"
       /\ (response'.op = "upload" /\ response'.status = 200) =>
            \E file \in Files : session_state'.original_df = Some(ReadTable(file))
       /\ response'.op = "reset" => session_state'.original_df = None
       /\ (session_state'.processed_df = None) <=> (session_state'.original_df = None)
      ]_vars

InvalidColumns == "Invalid columns"

NotNumeric == "Columns must be numeric for transformation"

InvalidMethod == "Error during preprocessing: Invalid method"

\* C15: with a dataset held, preprocess is refused with the column error
\* when a requested column is absent, else with the numeric error when a
\* requested column holds strings or dates, else with the method error when
\* the method is neither standardize nor normalize, each with status 400;
\* and a preprocess that answers 200 keeps the rows, the column names and
\* every column that was not requested, and rescales every requested one.
PreprocessValidation ==
    [][(response'.op = "preprocess" /\ session_state.processed_df # None) =>
          LET df == Get(session_state.processed_df) IN
          \A columns \in PreprocessColumns, method \in Methods :
             preprocess_data(columns, method) =>
                LET absent == \E c \in Range(columns) : c \notin Range(df.columns)
                    strings == /\ ~absent
                               /\ \E c \in Range(columns) :
                                     df.data[c].dtype \in {"object", "datetime64[ns]"}
                    unknown == method \notin {"standardize", "normalize"}
                IN  /\ absent => response' = Raise("preprocess", 400, InvalidColumns)
                    /\ strings => response' = Raise("preprocess", 400, NotNumeric)
                    /\ (~absent /\ ~strings /\ unknown) =>
                          response' = Raise("preprocess", 400, InvalidMethod)
                    /\ (absent \/ strings \/ unknown) =>
                          session_state' = session_state
                    /\ response'.status = 200 =>
                          LET out == Get(session_state'.processed_df)
                          IN  /\ out.columns = df.columns
                              /\ out.nrows = df.nrows
                              /\ \A c \in Range(df.columns) \ Range(columns) :
                                    out.data[c] = df.data[c]
                              /\ \A c \in Range(columns) :
                                    /\ out.data[c].raw = df.data[c].raw
                                    /\ out.data[c].applied =
                                          Append(df.data[c].applied, method)
      ]_vars

\* preprocess was refused for an absent column although the table holds the
\* string column f2: the request named an absent column and f2, and the
\* absent one was reported.
PreprocessRefusedForAbsentColumn ==
    /\ response = Raise("preprocess", 400, InvalidColumns)
    /\ session_state.processed_df # None
    /\ "f2" \in Range(Get(session_state.processed_df).columns)
    /\ Get(session_state.processed_df).data["f2"].dtype = "object"

\* C16: after a split that answers 200 the train and test parts hold
\* distinct rows of the working dataset, every row of it is in exactly one
\* of them, their sizes add up to its row count and are the ones reported,
\* the labels are split as the features are, and the features stored are
\* the columns of the working dataset, in order, without the target.
SplitPartitionsRows ==
    [][(response'.op = "split" /\ response'.status = 200) =>
          LET df     == Get(session_state.processed_df)
              train  == Get(session_state'.X_train).index
              test   == Get(session_state'.X_test).index
              target == Get(session_state'.target_column)
              others == SelectSeq(df.columns, LAMBDA c : c # target)
          IN  /\ Len(train) + Len(test) = df.nrows
              /\ Cardinality(Range(train)) = Len(train)
              /\ Cardinality(Range(test)) = Len(test)
              /\ Range(train) \cap Range(test) = {}
              /\ Range(train) \cup Range(test) = 1..df.nrows
              /\ Get(session_state'.y_train).index = train
              /\ Get(session_state'.y_test).index = test
              /\ response'.body.train_samples = Len(train)
              /\ response'.body.test_samples = Len(test)
              /\ target \in Range(df.columns)
              /\ session_state'.feature_columns = Some(others)
              /\ Get(session_state'.X_train).frame.columns = others
              /\ Get(session_state'.X_test).frame.columns = others
      ]_vars

\* A split has answered 200 with two rows or more in each part.
SplitInHalves ==
    /\ response.op = "split"
    /\ response.status = 200
    /\ session_state.X_train # None
    /\ Len(Get(session_state.X_train).index) >= 2
    /\ Len(Get(session_state.X_test).index) >= 2

\* The split of a table under a target, a test size and a seed, computed
\* from these four alone.
SplitOf(df, target, test_size, seed) ==
    LET X     == Encode(df, target)
        train == TrainIndex(seed, df.nrows, test_size)
        test  == TestIndex(seed, df.nrows, test_size)
    IN  <<Some([index |-> train, frame |-> X]),
          Some([index |-> test, frame |-> X]),
          Some([index |-> train, column |-> df.data[target]]),
          Some([index |-> test, column |-> df.data[target]]),
          Some(target), Some(X.columns)>>

\* C17: the split fields stored by a split that answers 200 are determined
\* by the working dataset, the target column, the test size and the seed,
\* whatever split or model the session held before the call; so a second
\* such call with the same three inputs on the same working dataset stores
\* the split fields the first one stored.
SplitIsDeterministic ==
    [][(response'.op = "split" /\ response'.status = 200) =>
          LET df == Get(session_state.processed_df) IN
          \A t \in Targets, ts \in TestSizes, seed \in Seeds :
             split_data(t, ts, seed) =>
                /\ SplitRecord(session_state') = SplitOf(df, t, ts, seed)
                /\ session_state'.processed_df = session_state.processed_df
                /\ SplitRecord(session_state) = SplitOf(df, t, ts, seed) =>
                      SplitRecord(session_state') = SplitRecord(session_state)
      ]_vars

\* A split has answered 200 on a working dataset that preprocess has
\* rescaled, and the parts stored are parts of the rescaled table.
SplitAgainOnRescaledTable ==
    /\ response.op = "split"
    /\ response.status = 200
    /\ session_state.X_train # None
    /\ session_state.transformations_applied # <<>>
    /\ Get(session_state.X_train).frame.data["f1"] =
          Get(session_state.processed_df).data["f1"]

\* C18: status, describe and evaluate leave every field of the session as
\* it was, whatever they answer, and an evaluate that follows an evaluate
\* gives the answer the first one gave.
ReadsLeaveSession ==
    [][/\ response'.op \in {"pipeline-status", "dataset", "results"} =>
            session_state' = session_state
       /\ (response.op = "results" /\ response'.op = "results") =>
            response' = response
      ]_vars

\* evaluate has answered 200 with the stored model and test part, and the
\* session still holds them.
EvaluateAnswered ==
    /\ response.op = "results"
    /\ response.status = 200
    /\ session_state.model = Some(response.body.predicted_with)
    /\ session_state.X_test = Some(response.body.predicted_on)

SessionFields ==
    {"original_df", "processed_df", "X_train", "X_test", "y_train", "y_test",
     "target_column", "feature_columns", "model", "model_name",
     "transformations_applied"}

\* C19: in every state the results flag of the status equals its train
\* flag, both telling whether a model is stored; a status asked right after
\* a train that answered 200, with no evaluate in between, reports results
\* true; and the session has no field beyond the eleven of its initial
\* record, none of which an evaluate changes.
ResultsFlagIsTrainFlag ==
    [][/\ Status(session_state).results = Status(session_state).train
       /\ Status(session_state).results = (session_state.model # None)
       /\ DOMAIN session_state = SessionFields
       /\ response'.op = "pipeline-status" =>
            /\ response'.body.results = response'.body.train
            /\ response'.body.results = (session_state.model # None)
       /\ (/\ response.op = "train"
           /\ response.status = 200
           /\ response'.op = "pipeline-status") =>
            response'.body.results
       /\ response'.op = "results" =>
            /\ session_state' = session_state
            /\ Status(session_state') = Status(session_state)
      ]_vars

\* status has answered with the results flag true.
StatusReportsResults ==
    /\ response.op = "pipeline-status"
    /\ response.body.results
    /\ response.body.train
    /\ session_state.model # None

\* C20: in every state the four parts of the split are all absent or all
\* present, so the test part is present whenever a model is; and the split
\* flag of the status turns true only in a split that answers 200, and is
\* false after an upload that answers 200 and after a resetAll.
SplitFlagTellsOfSplit ==
    [][/\ \/ /\ session_state.X_train = None
             /\ session_state.X_test = None
             /\ session_state.y_train = None
             /\ session_state.y_test = None
          \/ /\ session_state.X_train # None
             /\ session_state.X_test # None
             /\ session_state.y_train # None
             /\ session_state.y_test # None
       /\ session_state.model # None =>
            (session_state.X_test # None /\ session_state.y_test # None)
       /\ (Status(session_state').split /\ ~Status(session_state).split) =>
            (response'.op = "split" /\ response'.status = 200)
       /\ (\/ response'.op = "upload" /\ response'.status = 200
           \/ response'.op = "reset") =>
            ~Status(session_state').split
      ]_vars
====
